---- MODULE Spec2Model ----
(***************************************************************************)
(* A model of the Amazon product scraper (src/amazon_scraper.py) and of    *)
(* its request handler (src/api.py).                                       *)
(*                                                                         *)
(* Strings are sequences of one-character strings, so that strip, replace, *)
(* startswith and concatenation are computed character by character.      *)
(* An Optional value is None (the empty tuple) or Some(x) (a one-tuple).   *)
(***************************************************************************)
EXTENDS Integers, Sequences, FiniteSets, TLC

VARIABLES
    entry,        \* which function of the program this run calls
    pc,           \* position of the run in the code
    arg,          \* argument of a directly called pure function
    ret,          \* what the directly called function returned
    base_url,     \* AmazonScraper.base_url
    country,      \* SearchRequest.country
    search_term,  \* the search_term of the running scrape_amazon_search
    termIdx,      \* position of scrape_with_fallback in self.search_terms
    retries,      \* make_request's retries parameter
    attempt,      \* make_request's loop variable
    outcomes,     \* outcome of each session.get of the running make_request
    log,          \* waits and requests of the running make_request, in order
    response,     \* what make_request returns
    doc,          \* the parsed document (soup) given to parse_product_data
    selIdx,       \* number of product_selectors parse_product_data has evaluated
    products,     \* the products list of parse_product_data / scrape_amazon_search
    all_products, \* scrape_with_fallback's all_products
    batches,      \* what each scrape_amazon_search of scrape_with_fallback returned
    result,       \* what the called entry point returned or raised
    requested,    \* the URLs session.get was called with
    nRequests,    \* session.get calls made by the run
    nWaits,       \* human_delay calls made by the run
    nCooldowns,   \* human_delay(3.0, 7.0) calls made by scrape_with_fallback
    delay         \* the delay drawn by a directly called human_delay

vars == <<entry, pc, arg, ret, base_url, country, search_term, termIdx, retries,
          attempt, outcomes, log, response, doc, selIdx, products, all_products,
          batches, result, requested, nRequests, nWaits, nCooldowns, delay>>

(***************************************************************************)
(* Bounds of the model.                                                    *)
(***************************************************************************)
MaxRetries == 3
MaxElements == 2
MaxPriceTokens == 3
MaxPatterns == 3
MaxTail == 3

(***************************************************************************)
(* Optional values and strings.                                            *)
(***************************************************************************)
None == <<>>
Some(x) == <<x>>

Whitespace == {" ", "\t", "\n"}

RECURSIVE LStrip(_)
LStrip(s) ==
    IF s # <<>> /\ Head(s) \in Whitespace THEN LStrip(Tail(s)) ELSE s

RECURSIVE RStrip(_)
RStrip(s) ==
    IF s # <<>> /\ s[Len(s)] \in Whitespace
    THEN RStrip(SubSeq(s, 1, Len(s) - 1))
    ELSE s

\* str.strip()
Strip(s) == RStrip(LStrip(s))

\* str.startswith(prefix)
StartsWith(s, prefix) ==
    Len(s) >= Len(prefix) /\ SubSeq(s, 1, Len(prefix)) = prefix

\* str.replace(old, new) for a non-empty old: left to right, non-overlapping
RECURSIVE Replace(_, _, _)
Replace(s, old, new) ==
    IF s = <<>> THEN <<>>
    ELSE IF StartsWith(s, old)
         THEN new \o Replace(SubSeq(s, Len(old) + 1, Len(s)), old, new)
         ELSE <<Head(s)>> \o Replace(Tail(s), old, new)

RECURSIVE Flatten(_)
Flatten(ss) == IF ss = <<>> THEN <<>> ELSE Head(ss) \o Flatten(Tail(ss))

PriceNotAvailable ==
    <<"P","r","i","c","e"," ","n","o","t"," ","a","v","a","i","l","a","b","l","e">>
PricePrefix == <<"P","r","i","c","e",":">>
Dollar == <<"$">>
Http == <<"h","t","t","p">>
AmazonIn ==
    <<"h","t","t","p","s",":","/","/","w","w","w",".","a","m","a","z","o","n",".","i","n">>
AmazonCom ==
    <<"h","t","t","p","s",":","/","/","w","w","w",".","a","m","a","z","o","n",".","c","o","m">>
AmazonCoUk ==
    <<"h","t","t","p","s",":","/","/","w","w","w",".","a","m","a","z","o","n",".","c","o",".","u","k">>
AmazonCa ==
    <<"h","t","t","p","s",":","/","/","w","w","w",".","a","m","a","z","o","n",".","c","a">>

(***************************************************************************)
(* clean_price                                                             *)
(***************************************************************************)
CleanPrice(price_text) ==
    IF price_text = <<>> THEN PriceNotAvailable
    ELSE LET t1 == Strip(price_text)
             t2 == Strip(Replace(Replace(t1, Dollar, Dollar), PricePrefix, <<>>))
             t3 == IF t2 # <<>> /\ ~StartsWith(t2, Dollar) THEN Dollar \o t2 ELSE t2
         IN  IF t3 # <<>> THEN t3 ELSE PriceNotAvailable

(***************************************************************************)
(* Elements and the field locator.  An element is a record of its text     *)
(* nodes (in document order) and of its href, src and data-src attributes  *)
(* (each None when the attribute is absent).  A field's matches give, for  *)
(* each selector of the field's list in order, what select_one returns:    *)
(* None or Some(element); selectors past the end of the tuple match        *)
(* nothing.                                                                *)
(***************************************************************************)
Elem(texts, href, src, data_src) ==
    [texts |-> texts, href |-> href, src |-> src, data_src |-> data_src]

\* element.get_text(strip=True): every text node stripped, the empty ones
\* dropped, the rest joined
RECURSIVE GetTextStrip(_)
GetTextStrip(texts) ==
    IF texts = <<>> THEN <<>> ELSE Strip(Head(texts)) \o GetTextStrip(Tail(texts))

\* find_text_by_selectors returning at the first selector that matches an element
RECURSIVE FindTextFirstMatch(_)
FindTextFirstMatch(matches) ==
    IF matches = <<>> THEN None
    ELSE IF Head(matches) # None
         THEN LET text == GetTextStrip(Head(matches)[1].texts)
              IN  IF text # <<>> THEN Some(text) ELSE None
         ELSE FindTextFirstMatch(Tail(matches))

RECURSIVE FindTextBySelectors(_)
FindTextBySelectors(matches) ==
    IF matches = <<>> THEN None
    ELSE IF Head(matches) # None
         THEN LET text == GetTextStrip(Head(matches)[1].texts)
              IN  IF text # <<>> THEN Some(text)
                  ELSE FindTextBySelectors(Tail(matches))
         ELSE FindTextBySelectors(Tail(matches))

RECURSIVE FindElementBySelectors(_)
FindElementBySelectors(matches) ==
    IF matches = <<>> THEN None
    ELSE IF Head(matches) # None THEN Head(matches)
         ELSE FindElementBySelectors(Tail(matches))

(***************************************************************************)
(* extract_product_info.  A container is a record of the matches of the    *)
(* name, price, link and image selector lists inside it.                   *)
(***************************************************************************)
Container(name, price, link, img) ==
    [name |-> name, price |-> price, link |-> link, img |-> img]

\* the link and image part of extract_product_info
ProductLink(container) ==
    LET link_element == FindElementBySelectors(container.link)
    IN  IF link_element # None /\ link_element[1].href \notin {None, Some(<<>>)}
        THEN LET href == link_element[1].href[1]
             IN  IF StartsWith(href, Http) THEN href ELSE AmazonIn \o href
        ELSE <<>>

ProductImage(container) ==
    LET img_element == FindElementBySelectors(container.img)
    IN  IF img_element # None
        THEN IF img_element[1].src \notin {None, Some(<<>>)}
             THEN img_element[1].src[1]
             ELSE IF img_element[1].data_src # None
                  THEN img_element[1].data_src[1]
                  ELSE <<>>
        ELSE <<>>

ProductPrice(container) ==
    LET price_text == FindTextBySelectors(container.price)
    IN  IF price_text # None THEN CleanPrice(price_text[1]) ELSE PriceNotAvailable

\* extract_product_info accepting a container only when it has a price too
ExtractRequiresPrice(container) ==
    LET name == FindTextBySelectors(container.name)
    IN  IF name # None /\ Len(Strip(name[1])) > 0
           /\ FindTextBySelectors(container.price) # None
        THEN Some([productName |-> name[1],
                   price |-> ProductPrice(container),
                   link |-> ProductLink(container),
                   image_url |-> ProductImage(container)])
        ELSE None

ExtractProductInfo(container) ==
    LET name == FindTextBySelectors(container.name)
    IN  IF name # None /\ Len(Strip(name[1])) > 0
        THEN Some([productName |-> name[1],
                   price |-> ProductPrice(container),
                   link |-> ProductLink(container),
                   image_url |-> ProductImage(container)])
        ELSE None

(***************************************************************************)
(* The document.  A document is the sequence, in document order, of the    *)
(* elements a container selector can match; each carries the attributes   *)
(* the product_selectors test and the container it holds.                  *)
(***************************************************************************)
DocElement(search_result, data_asin, result_item, cel_widget, content) ==
    [search_result |-> search_result, data_asin |-> data_asin,
     result_item |-> result_item, cel_widget |-> cel_widget, content |-> content]

\* product_selectors, as tests on an element
NumSelectors == 5
SelectorMatches(i, e) ==
    CASE i = 1 -> e.search_result
      [] i = 2 -> e.data_asin /\ e.search_result
      [] i = 3 -> e.result_item /\ e.search_result
      [] i = 4 -> e.cel_widget
      [] i = 5 -> e.result_item /\ ~e.search_result

\* soup.select(selector): the matching elements in document order
RECURSIVE Select(_, _)
Select(d, i) ==
    IF d = <<>> THEN <<>>
    ELSE IF SelectorMatches(i, Head(d))
         THEN <<Head(d).content>> \o Select(Tail(d), i)
         ELSE Select(Tail(d), i)

\* containers[:20]
MaxContainers == 20

\* the container loop running over every matched container
FirstContainersUncapped(containers) == containers

FirstContainers(containers) ==
    SubSeq(containers, 1, IF Len(containers) < MaxContainers
                          THEN Len(containers) ELSE MaxContainers)

\* A container on which extract_product_info raises an exception instead of
\* returning (a node that is not the Tag the selectors expect) is a container
\* marked so.
Raising(container) ==
    [name |-> container.name, price |-> container.price, link |-> container.link,
     img |-> container.img, raises |-> TRUE]
ExtractRaises(container) == "raises" \in DOMAIN container

\* the container loop ending at the first container whose extraction raises
RECURSIVE AcceptedProductsAbortOnError(_)
AcceptedProductsAbortOnError(containers) ==
    IF containers = <<>> THEN <<>>
    ELSE IF ExtractRaises(Head(containers)) THEN <<>>
    ELSE LET product == ExtractProductInfo(Head(containers))
         IN  IF product # None /\ product[1].productName # <<>>
             THEN <<product[1]>> \o AcceptedProductsAbortOnError(Tail(containers))
             ELSE AcceptedProductsAbortOnError(Tail(containers))

\* the inner loop of parse_product_data: the accepted products of the
\* containers, in order; a container whose extraction raises is skipped by
\* the except clause
RECURSIVE AcceptedProducts(_)
AcceptedProducts(containers) ==
    IF containers = <<>> THEN <<>>
    ELSE IF ExtractRaises(Head(containers))
    THEN AcceptedProducts(Tail(containers))
    ELSE LET product == ExtractProductInfo(Head(containers))
         IN  IF product # None /\ product[1].productName # <<>>
             THEN <<product[1]>> \o AcceptedProducts(Tail(containers))
             ELSE AcceptedProducts(Tail(containers))

(***************************************************************************)
(* Program constants.                                                      *)
(***************************************************************************)
\* AmazonScraper.search_terms
SearchTerms == <<"electronics", "books", "home+kitchen", "clothing", "sports", "toys">>

\* make_request's default retries
DefaultRetries == 3

\* country_domains of search_products
CountryDomains ==
    [c \in {"US", "UK", "CA", "IN"} |->
        CASE c = "US" -> AmazonCom
          [] c = "UK" -> AmazonCoUk
          [] c = "CA" -> AmazonCa
          [] c = "IN" -> AmazonIn]

\* the search URL of scrape_amazon_search
SearchUrl(origin, term) == [origin |-> origin, term |-> term]

(***************************************************************************)
(* Waits and requests, as logged by make_request.  Durations are in tenths *)
(* of a second.                                                            *)
(***************************************************************************)
Wait(lo, hi) == [ev |-> "wait", lo |-> lo, hi |-> hi]
Get == [ev |-> "get", lo |-> 0, hi |-> 0]

NumGets(l) == Cardinality({i \in 1..Len(l) : l[i].ev = "get"})

(***************************************************************************)
(* Results and exceptions.                                                 *)
(***************************************************************************)
NoResult == [kind |-> "none", exc |-> "", status_code |-> 0, detail |-> <<>>, value |-> <<>>]
Returned(v) ==
    [kind |-> "return", exc |-> "", status_code |-> 0, detail |-> <<>>, value |-> v]
Raised(e) ==
    [kind |-> "raise", exc |-> e.exc, status_code |-> e.status_code,
     detail |-> e.detail, value |-> <<>>]

HTTPException(status_code, detail) ==
    [exc |-> "HTTPException", status_code |-> status_code, detail |-> detail]
\* an exception of session.get that is not a requests.exceptions.RequestException
GetFailure == [exc |-> "Exception", status_code |-> 0, detail |-> <<"session.get">>]
\* str(e)
StrOf(e) == <<e.exc>> \o e.detail

\* the except clause of search_products: every Exception, the handler's own
\* HTTPException included, becomes a 500
ApiExcept(e) == HTTPException(500, StrOf(e))

\* how an exception leaves the run: through search_products' except clause
\* or to the caller
Propagate(e) == IF entry = "search_products" THEN Raised(ApiExcept(e)) ELSE Raised(e)

(***************************************************************************)
(* Inputs.                                                                 *)
(***************************************************************************)
Text(s) == Elem(<<s>>, None, None, None)
RelativeHref == <<"/","d","p","/","B","0">>
AbsoluteHref == <<"h","t","t","p","s",":","/","/","x",".","i","o","/","p">>
ImgSrc == <<"i","m","g",".","p","n","g">>
LazySrc == <<"l","a","z","y",".","p","n","g">>

\* text nodes of the elements the field locator is tried on
ElemTexts ==
    { <<>>, << <<" ">> >>, << <<"a">> >>, << <<" ", "b", " ">> >>,
      << <<" ">>, <<"c", " ">> >> }
LocateMatches ==
    UNION { [1..n -> {None} \cup {Some(Elem(t, None, None, None)) : t \in ElemTexts}]
            : n \in 0..MaxPatterns }

\* inputs of clean_price: up to MaxPriceTokens pieces, joined
PricePieces == { <<" ">>, Dollar, <<"5">>, PricePrefix, <<"P","r","i","c">>, <<"e",":">> }
PriceInputs ==
    { Flatten(ps) : ps \in UNION { [1..n -> PricePieces] : n \in 0..MaxPriceTokens } }

\* matches of the name, price, link and image selector lists in a container
NameMatches ==
    { <<>>, <<Some(Text(<<" ">>))>>, <<Some(Elem(<<>>, None, None, None))>>,
      <<Some(Text(<<"A">>))>>, <<None, Some(Text(<<" ", "B">>))>>,
      <<Some(Text(<<" ">>)), None, Some(Text(<<"C">>))>> }
PriceMatches ==
    { <<>>, <<Some(Text(<<"5">>))>>, <<None, Some(Text(<<"$", "5">>))>>,
      <<Some(Text(PricePrefix))>> }
LinkMatches ==
    { <<>>, <<Some(Elem(<<>>, None, None, None))>>,
      <<Some(Elem(<<>>, Some(<<>>), None, None))>>,
      <<Some(Elem(<<>>, Some(RelativeHref), None, None))>>,
      <<None, Some(Elem(<<>>, Some(AbsoluteHref), None, None))>>,
      <<Some(Elem(<<>>, None, None, None)), Some(Elem(<<>>, Some(RelativeHref), None, None))>> }
ImgMatches ==
    { <<>>, <<Some(Elem(<<>>, None, None, None))>>,
      <<Some(Elem(<<>>, None, Some(ImgSrc), Some(LazySrc)))>>,
      <<Some(Elem(<<>>, None, None, Some(LazySrc)))>>,
      <<None, Some(Elem(<<>>, None, Some(<<>>), Some(LazySrc)))>> }
Containers ==
    { Container(n, p, l, i) :
        n \in NameMatches, p \in PriceMatches, l \in LinkMatches, i \in ImgMatches }

\* base origins a scraper can have: the constructor's, or one search_products set
Origins == { CountryDomains[c] : c \in DOMAIN CountryDomains }

\* containers of the documents: two that are accepted, two that are not
NamedA ==
    Container(<<Some(Text(<<"A">>))>>, <<Some(Text(<<"5">>))>>,
              <<Some(Elem(<<>>, Some(RelativeHref), None, None))>>,
              <<Some(Elem(<<>>, None, Some(ImgSrc), None))>>)
NamedB == Container(<<None, Some(Text(<<"B">>))>>, <<>>, <<>>, <<>>)
Unnamed ==
    Container(<<>>, <<Some(Text(<<"5">>))>>,
              <<Some(Elem(<<>>, Some(AbsoluteHref), None, None))>>,
              <<Some(Elem(<<>>, None, Some(ImgSrc), None))>>)
BlankName == Container(<<Some(Text(<<" ">>))>>, <<>>, <<>>, <<>>)

\* documents parse_product_data is tried on
DocElements ==
    { DocElement(t, a, r, w, c) :
        t \in BOOLEAN, a \in BOOLEAN, r \in BOOLEAN, w \in BOOLEAN,
        c \in {NamedA, NamedB, Unnamed} }
Docs == UNION { [1..n -> DocElements] : n \in 0..MaxElements }

\* documents a 200 response can carry in a search
SearchResult(c) == DocElement(TRUE, TRUE, TRUE, FALSE, c)
Widget(c) == DocElement(FALSE, FALSE, FALSE, TRUE, c)
PageDocs ==
    { <<>>,
      <<SearchResult(Unnamed), SearchResult(BlankName)>>,
      <<SearchResult(Unnamed), Widget(NamedB)>>,
      <<SearchResult(NamedA)>>,
      <<SearchResult(NamedA), SearchResult(Unnamed), SearchResult(NamedB),
        SearchResult(NamedA), Widget(NamedB)>> }

\* Long documents: a page of MaxContainers elements, of which all but the
\* third are search results, followed by up to MaxTail more elements.  In
\* MixedPage most containers are accepted, one is rejected in every four
\* and the seventh raises; in RejectedPage none is accepted.
MixedPage ==
    [i \in 1..MaxContainers |->
        CASE i = 3 -> Widget(NamedB)
          [] i = 7 -> SearchResult(Raising(NamedB))
          [] i % 4 = 0 -> SearchResult(Unnamed)
          [] OTHER -> SearchResult(NamedA)]
RejectedPage ==
    [i \in 1..MaxContainers |->
        IF i = 3 THEN Widget(NamedB) ELSE SearchResult(Unnamed)]
TailElements ==
    { SearchResult(NamedA), SearchResult(NamedB), SearchResult(Unnamed),
      SearchResult(Raising(NamedA)), Widget(NamedA) }
LongDocs ==
    { page \o tail :
        page \in {MixedPage, RejectedPage},
        tail \in UNION { [1..n -> TailElements] : n \in 0..MaxTail } }

\* bounds human_delay is called with, in tenths of a second: those of its
\* callers, its defaults, and a lower bound of zero
DelayBounds ==
    { <<1, 5>>, <<20, 50>>, <<50, 100>>, <<100, 200>>, <<30, 70>>, <<10, 30>>,
      <<0, 5>> }

\* queries of a direct search, country codes of a request
Queries == {"laptop"}
Countries == {"US", "UK", "CA", "IN", "ZZ"}

\* what session.get does: a response with a status code, a
\* requests.exceptions.RequestException, or another exception
Outcomes == {"200", "429", "500", "RequestException", "Exception"}

(***************************************************************************)
(* The initial states: one call of one function of the program, on a       *)
(* freshly constructed scraper (base_url of __init__) unless stated.       *)
(***************************************************************************)
InitWith(e, p, a, o, c, q, n, d) ==
    /\ entry = e
    /\ pc = p
    /\ arg = a
    /\ ret = <<>>
    /\ base_url = o
    /\ country = c
    /\ search_term = q
    /\ termIdx = 0
    /\ retries = n
    /\ attempt = 0
    /\ outcomes = <<>>
    /\ log = <<>>
    /\ response = None
    /\ doc = d
    /\ selIdx = 0
    /\ products = <<>>
    /\ all_products = <<>>
    /\ batches = <<>>
    /\ result = NoResult
    /\ requested = {}
    /\ nRequests = 0
    /\ nWaits = 0
    /\ nCooldowns = 0
    /\ delay = 0

Init ==
    \/ InitWith("scrape_with_fallback", "fallback_loop", <<>>, AmazonIn, "", "", 0, <<>>)
    \/ \E q \in Queries :
          InitWith("scrape_amazon_search", "search", <<>>, AmazonIn, "", q, 0, <<>>)
    \/ \E c \in Countries, q \in Queries :
          InitWith("search_products", "api", <<>>, AmazonIn, c, q, 0, <<>>)
    \/ \E n \in 0..MaxRetries, q \in Queries :
          InitWith("make_request", "request_loop", <<>>, AmazonIn, "", q, n, <<>>)
    \/ \E d \in Docs \cup LongDocs :
          InitWith("parse_product_data", "parse_loop", <<>>, AmazonIn, "", "", 0, d)
    \/ \E c \in Containers, o \in Origins :
          InitWith("extract_product_info", "call", c, o, "", "", 0, <<>>)
    \/ \E m \in LocateMatches :
          InitWith("find_text_by_selectors", "call", m, AmazonIn, "", "", 0, <<>>)
    \/ \E x \in PriceInputs \cup {PriceNotAvailable} :
          InitWith("clean_price", "call", x, AmazonIn, "", "", 0, <<>>)
    \/ \E b \in DelayBounds :
          InitWith("human_delay", "call", b, AmazonIn, "", "", 0, <<>>)

(***************************************************************************)
(* make_request                                                            *)
(***************************************************************************)
\* the effect of one session.get whose outcome is o, followed by the waits
\* of after
Got(o, after) ==
    /\ outcomes' = Append(outcomes, o)
    /\ log' = log \o <<Get>> \o after
    /\ nRequests' = nRequests + 1
    /\ nWaits' = nWaits + Len(after)
    /\ requested' = requested \cup {SearchUrl(base_url, search_term)}

\* the head of an iteration that waits before the first request only
RequestWaitFirstOnly ==
    /\ pc = "request_loop"
    /\ attempt < retries
    /\ log' = IF attempt = 0 THEN Append(log, Wait(20, 50)) ELSE log
    /\ nWaits' = IF attempt = 0 THEN nWaits + 1 ELSE nWaits
    /\ pc' = "request_get"
    /\ UNCHANGED <<entry, arg, ret, base_url, country, search_term, termIdx,
                 retries, attempt, outcomes, response, doc, selIdx, products,
                 all_products, batches, result, requested, nRequests,
                 nCooldowns, delay>>

\* the head of an iteration: the delay before the request
RequestWait ==
    /\ pc = "request_loop"
    /\ attempt < retries
    /\ log' = Append(log, IF attempt = 0 THEN Wait(20, 50) ELSE Wait(50, 100))
    /\ nWaits' = nWaits + 1
    /\ pc' = "request_get"
    /\ UNCHANGED <<entry, arg, ret, base_url, country, search_term, termIdx,
                 retries, attempt, outcomes, response, doc, selIdx, products,
                 all_products, batches, result, requested, nRequests,
                 nCooldowns, delay>>

\* the loop ends: return None
RequestExhausted ==
    /\ pc = "request_loop"
    /\ attempt >= retries
    /\ response' = None
    /\ pc' = "request_return"
    /\ UNCHANGED <<entry, arg, ret, base_url, country, search_term, termIdx,
                 retries, attempt, outcomes, log, doc, selIdx, products,
                 all_products, batches, result, requested, nRequests, nWaits,
                 nCooldowns, delay>>

Get200 ==
    /\ pc = "request_get"
    /\ \E d \in PageDocs :
          response' = Some([status_code |-> 200, attempt |-> attempt + 1, doc |-> d])
    /\ Got("200", <<>>)
    /\ pc' = "request_return"
    /\ UNCHANGED <<entry, arg, ret, base_url, country, search_term, termIdx,
                 retries, attempt, doc, selIdx, products, all_products,
                 batches, result,
                 nCooldowns, delay>>

\* a 429 answer that does not use up an attempt
Get429NotCounted ==
    /\ pc = "request_get"
    /\ Got("429", <<Wait(100, 200)>>)
    /\ attempt' = attempt
    /\ pc' = "request_loop"
    /\ UNCHANGED <<entry, arg, ret, base_url, country, search_term, termIdx,
                 retries, response, doc, selIdx, products, all_products,
                 batches, result, nCooldowns, delay>>

\* a 429 answer after which the next attempt starts without the cooldown
Get429NoCooldown ==
    /\ pc = "request_get"
    /\ Got("429", <<>>)
    /\ attempt' = attempt + 1
    /\ pc' = "request_loop"
    /\ UNCHANGED <<entry, arg, ret, base_url, country, search_term, termIdx,
                 retries, response, doc, selIdx, products, all_products,
                 batches, result, nCooldowns, delay>>

\* a 429 answer followed by the cooldown only when an attempt is left
Get429LastNoCooldown ==
    /\ pc = "request_get"
    /\ Got("429", IF attempt < retries - 1 THEN <<Wait(100, 200)>> ELSE <<>>)
    /\ attempt' = attempt + 1
    /\ pc' = "request_loop"
    /\ UNCHANGED <<entry, arg, ret, base_url, country, search_term, termIdx,
                 retries, response, doc, selIdx, products, all_products,
                 batches, result, nCooldowns, delay>>

Get429 ==
    /\ pc = "request_get"
    /\ Got("429", <<Wait(100, 200)>>)
    /\ attempt' = attempt + 1
    /\ pc' = "request_loop"
    /\ UNCHANGED <<entry, arg, ret, base_url, country, search_term, termIdx,
                 retries, response, doc, selIdx, products, all_products,
                 batches, result,
                 nCooldowns, delay>>

\* a 500 answer ends the loop instead of going to the next attempt
GetOtherStatusGivesUp ==
    /\ pc = "request_get"
    /\ Got("500", <<>>)
    /\ attempt' = retries
    /\ pc' = "request_loop"
    /\ UNCHANGED <<entry, arg, ret, base_url, country, search_term, termIdx,
                 retries, response, doc, selIdx, products, all_products,
                 batches, result,
                 nCooldowns, delay>>

\* a 500 answer after which the next request is sent at once
GetOtherStatusRetriesAtOnce ==
    /\ pc = "request_get"
    /\ Got("500", <<>>)
    /\ attempt' = attempt + 1
    /\ pc' = IF attempt + 1 < retries THEN "request_get" ELSE "request_loop"
    /\ UNCHANGED <<entry, arg, ret, base_url, country, search_term, termIdx,
                 retries, response, doc, selIdx, products, all_products,
                 batches, result, nCooldowns, delay>>

GetOtherStatus ==
    /\ pc = "request_get"
    /\ Got("500", <<>>)
    /\ attempt' = attempt + 1
    /\ pc' = "request_loop"
    /\ UNCHANGED <<entry, arg, ret, base_url, country, search_term, termIdx,
                 retries, response, doc, selIdx, products, all_products,
                 batches, result,
                 nCooldowns, delay>>

\* a RequestException followed by the backoff wait on the last attempt too
GetRequestExceptionAlwaysWaits ==
    /\ pc = "request_get"
    /\ Got("RequestException", <<Wait(50, 100)>>)
    /\ attempt' = attempt + 1
    /\ pc' = "request_loop"
    /\ UNCHANGED <<entry, arg, ret, base_url, country, search_term, termIdx,
                 retries, response, doc, selIdx, products, all_products,
                 batches, result, nCooldowns, delay>>

GetRequestException ==
    /\ pc = "request_get"
    /\ Got("RequestException",
           IF attempt < retries - 1 THEN <<Wait(50, 100)>> ELSE <<>>)
    /\ attempt' = attempt + 1
    /\ pc' = "request_loop"
    /\ UNCHANGED <<entry, arg, ret, base_url, country, search_term, termIdx,
                 retries, response, doc, selIdx, products, all_products,
                 batches, result,
                 nCooldowns, delay>>

\* an exception the except clause does not name leaves make_request and its
\* callers
GetException ==
    /\ pc = "request_get"
    /\ Got("Exception", <<>>)
    /\ result' = Propagate(GetFailure)
    /\ pc' = "done"
    /\ UNCHANGED <<entry, arg, ret, base_url, country, search_term, termIdx,
                 retries, attempt, response, doc, selIdx, products,
                 all_products, batches,
                 nCooldowns, delay>>

\* make_request called directly returns to its caller
RequestReturn ==
    /\ pc = "request_return"
    /\ entry = "make_request"
    /\ result' = Returned(response)
    /\ pc' = "done"
    /\ UNCHANGED <<entry, arg, ret, base_url, country, search_term, termIdx,
                 retries, attempt, outcomes, log, response, doc, selIdx,
                 products, all_products, batches, requested, nRequests,
                 nWaits,
                 nCooldowns, delay>>

(***************************************************************************)
(* scrape_amazon_search and parse_product_data                             *)
(***************************************************************************)
SearchStart ==
    /\ pc = "search"
    /\ retries' = DefaultRetries
    /\ attempt' = 0
    /\ outcomes' = <<>>
    /\ log' = <<>>
    /\ response' = None
    /\ pc' = "request_loop"
    /\ UNCHANGED <<entry, arg, ret, base_url, country, search_term, termIdx,
                 doc, selIdx, products, all_products, batches, result,
                 requested, nRequests, nWaits,
                 nCooldowns, delay>>

\* scrape_amazon_search raising when make_request returns None
SearchNoResponseRaises ==
    /\ pc = "request_return"
    /\ entry # "make_request"
    /\ response = None
    /\ result' = Propagate(GetFailure)
    /\ pc' = "done"
    /\ UNCHANGED <<entry, arg, ret, base_url, country, search_term, termIdx,
                 retries, attempt, outcomes, log, response, doc, selIdx,
                 products, all_products, batches, requested, nRequests,
                 nWaits,
                 nCooldowns, delay>>

\* if not response: return []
SearchNoResponse ==
    /\ pc = "request_return"
    /\ entry # "make_request"
    /\ response = None
    /\ products' = <<>>
    /\ pc' = "search_return"
    /\ UNCHANGED <<entry, arg, ret, base_url, country, search_term, termIdx,
                 retries, attempt, outcomes, log, response, doc, selIdx,
                 all_products, batches, result, requested, nRequests, nWaits,
                 nCooldowns, delay>>

SearchParse ==
    /\ pc = "request_return"
    /\ entry # "make_request"
    /\ response # None
    /\ doc' = response[1].doc
    /\ products' = <<>>
    /\ selIdx' = 0
    /\ pc' = "parse_loop"
    /\ UNCHANGED <<entry, arg, ret, base_url, country, search_term, termIdx,
                 retries, attempt, outcomes, log, response, all_products,
                 batches, result, requested, nRequests, nWaits,
                 nCooldowns, delay>>

\* one iteration of the selector loop that stops as soon as the selector
\* matched a container
ParseSelectorStopsAtMatch ==
    /\ pc = "parse_loop"
    /\ selIdx < NumSelectors
    /\ LET containers == Select(doc, selIdx + 1)
           accepted == AcceptedProducts(FirstContainers(containers))
       IN  /\ products' = products \o accepted
           /\ nWaits' = nWaits + Len(accepted)
           /\ selIdx' = selIdx + 1
           /\ pc' = IF containers # <<>> \/ selIdx + 1 = NumSelectors
                    THEN "parse_return" ELSE "parse_loop"
    /\ UNCHANGED <<entry, arg, ret, base_url, country, search_term, termIdx,
                 retries, attempt, outcomes, log, response, doc,
                 all_products, batches, result, requested, nRequests,
                 nCooldowns, delay>>

\* one iteration of a selector loop without the break: every selector is
\* evaluated and what each one finds is added to products
ParseSelectorCumulative ==
    /\ pc = "parse_loop"
    /\ selIdx < NumSelectors
    /\ LET containers == Select(doc, selIdx + 1)
           accepted == AcceptedProducts(FirstContainers(containers))
       IN  /\ products' = products \o accepted
           /\ nWaits' = nWaits + Len(accepted)
           /\ selIdx' = selIdx + 1
           /\ pc' = IF selIdx + 1 = NumSelectors THEN "parse_return" ELSE "parse_loop"
    /\ UNCHANGED <<entry, arg, ret, base_url, country, search_term, termIdx,
                 retries, attempt, outcomes, log, response, doc,
                 all_products, batches, result, requested, nRequests,
                 nCooldowns, delay>>

\* one iteration of the selector loop: every accepted product is followed by
\* a delay; the loop ends when products is not empty
ParseSelector ==
    /\ pc = "parse_loop"
    /\ selIdx < NumSelectors
    /\ LET containers == Select(doc, selIdx + 1)
           accepted == AcceptedProducts(FirstContainers(containers))
       IN  /\ products' = products \o accepted
           /\ nWaits' = nWaits + Len(accepted)
           /\ selIdx' = selIdx + 1
           /\ pc' = IF products' # <<>> \/ selIdx + 1 = NumSelectors
                    THEN "parse_return" ELSE "parse_loop"
    /\ UNCHANGED <<entry, arg, ret, base_url, country, search_term, termIdx,
                 retries, attempt, outcomes, log, response, doc,
                 all_products, batches, result, requested, nRequests,
                 nCooldowns, delay>>

ParseReturn ==
    /\ pc = "parse_return"
    /\ IF entry = "parse_product_data"
       THEN /\ result' = Returned(products)
            /\ pc' = "done"
       ELSE /\ result' = result
            /\ pc' = "search_return"
    /\ UNCHANGED <<entry, arg, ret, base_url, country, search_term, termIdx,
                 retries, attempt, outcomes, log, response, doc, selIdx,
                 products, all_products, batches, requested, nRequests,
                 nWaits,
                 nCooldowns, delay>>

SearchReturn ==
    /\ pc = "search_return"
    /\ entry = "scrape_amazon_search"
    /\ result' = Returned(products)
    /\ pc' = "done"
    /\ UNCHANGED <<entry, arg, ret, base_url, country, search_term, termIdx,
                 retries, attempt, outcomes, log, response, doc, selIdx,
                 products, all_products, batches, requested, nRequests,
                 nWaits,
                 nCooldowns, delay>>

(***************************************************************************)
(* scrape_with_fallback                                                    *)
(***************************************************************************)
FallbackNext ==
    /\ pc = "fallback_loop"
    /\ termIdx < Len(SearchTerms)
    /\ termIdx' = termIdx + 1
    /\ search_term' = SearchTerms[termIdx + 1]
    /\ pc' = "search"
    /\ UNCHANGED <<entry, arg, ret, base_url, country, retries, attempt,
                 outcomes, log, response, doc, selIdx, products,
                 all_products, batches, result, requested, nRequests, nWaits,
                 nCooldowns, delay>>

FallbackReturn ==
    /\ pc = "fallback_loop"
    /\ termIdx = Len(SearchTerms)
    /\ result' = Returned(all_products)
    /\ pc' = "done"
    /\ UNCHANGED <<entry, arg, ret, base_url, country, search_term, termIdx,
                 retries, attempt, outcomes, log, response, doc, selIdx,
                 products, all_products, batches, requested, nRequests,
                 nWaits,
                 nCooldowns, delay>>

\* products found, but the loop goes on to the next term
FallbackSuccessNoBreak ==
    /\ pc = "search_return"
    /\ entry = "scrape_with_fallback"
    /\ products # <<>>
    /\ all_products' = all_products \o products
    /\ batches' = Append(batches, products)
    /\ pc' = "fallback_loop"
    /\ UNCHANGED <<entry, arg, ret, base_url, country, search_term, termIdx,
                 retries, attempt, outcomes, log, response, doc, selIdx,
                 products, result, requested, nRequests, nWaits,
                 nCooldowns, delay>>

\* products found: extend all_products, break and return
FallbackSuccess ==
    /\ pc = "search_return"
    /\ entry = "scrape_with_fallback"
    /\ products # <<>>
    /\ all_products' = all_products \o products
    /\ batches' = Append(batches, products)
    /\ result' = Returned(all_products')
    /\ pc' = "done"
    /\ UNCHANGED <<entry, arg, ret, base_url, country, search_term, termIdx,
                 retries, attempt, outcomes, log, response, doc, selIdx,
                 products, requested, nRequests, nWaits,
                 nCooldowns, delay>>

\* no products: the next term at once
FallbackEmptyNoCooldown ==
    /\ pc = "search_return"
    /\ entry = "scrape_with_fallback"
    /\ products = <<>>
    /\ batches' = Append(batches, products)
    /\ pc' = "fallback_loop"
    /\ UNCHANGED <<entry, arg, ret, base_url, country, search_term, termIdx,
                 retries, attempt, outcomes, log, response, doc, selIdx,
                 products, all_products, result, requested, nRequests,
                 nWaits, nCooldowns, delay>>

\* no products: wait only when a term is left, then the next term
FallbackEmptyLastNoCooldown ==
    /\ pc = "search_return"
    /\ entry = "scrape_with_fallback"
    /\ products = <<>>
    /\ batches' = Append(batches, products)
    /\ nWaits' = IF termIdx < Len(SearchTerms) THEN nWaits + 1 ELSE nWaits
    /\ nCooldowns' = IF termIdx < Len(SearchTerms) THEN nCooldowns + 1 ELSE nCooldowns
    /\ pc' = "fallback_loop"
    /\ UNCHANGED <<entry, arg, ret, base_url, country, search_term, termIdx,
                 retries, attempt, outcomes, log, response, doc, selIdx,
                 products, all_products, result, requested, nRequests,
                 delay>>

\* no products: wait, then the next term
FallbackEmpty ==
    /\ pc = "search_return"
    /\ entry = "scrape_with_fallback"
    /\ products = <<>>
    /\ batches' = Append(batches, products)
    /\ nWaits' = nWaits + 1
    /\ nCooldowns' = nCooldowns + 1
    /\ pc' = "fallback_loop"
    /\ UNCHANGED <<entry, arg, ret, base_url, country, search_term, termIdx,
                 retries, attempt, outcomes, log, response, doc, selIdx,
                 products, all_products, result, requested, nRequests,
                 delay>>

(***************************************************************************)
(* search_products                                                         *)
(***************************************************************************)
\* the handler delegating with the constructor's origin for an unknown country
ApiUnsupportedCountrySearches ==
    /\ pc = "api"
    /\ country \notin DOMAIN CountryDomains
    /\ search_term' = search_term
    /\ pc' = "search"
    /\ UNCHANGED <<entry, arg, ret, base_url, country, search_term, termIdx,
                 retries, attempt, outcomes, log, response, doc, selIdx,
                 products, all_products, batches, result, requested,
                 nRequests, nWaits,
                 nCooldowns, delay>>

\* the HTTPException(400) is raised inside the try block, whose except clause
\* catches it
ApiUnsupportedCountry ==
    /\ pc = "api"
    /\ country \notin DOMAIN CountryDomains
    /\ result' = Raised(ApiExcept(HTTPException(400, <<"Unsupported country code", country>>)))
    /\ pc' = "done"
    /\ UNCHANGED <<entry, arg, ret, base_url, country, search_term, termIdx,
                 retries, attempt, outcomes, log, response, doc, selIdx,
                 products, all_products, batches, requested, nRequests,
                 nWaits,
                 nCooldowns, delay>>

ApiSearch ==
    /\ pc = "api"
    /\ country \in DOMAIN CountryDomains
    /\ base_url' = CountryDomains[country]
    /\ pc' = "search"
    /\ UNCHANGED <<entry, arg, ret, country, search_term, termIdx, retries,
                 attempt, outcomes, log, response, doc, selIdx, products,
                 all_products, batches, result, requested, nRequests, nWaits,
                 nCooldowns, delay>>

ApiReturn ==
    /\ pc = "search_return"
    /\ entry = "search_products"
    /\ result' = Returned(IF products = <<>> THEN <<>> ELSE products)
    /\ pc' = "done"
    /\ UNCHANGED <<entry, arg, ret, base_url, country, search_term, termIdx,
                 retries, attempt, outcomes, log, response, doc, selIdx,
                 products, all_products, batches, requested, nRequests,
                 nWaits,
                 nCooldowns, delay>>

(***************************************************************************)
(* Direct calls of extract_product_info, find_text_by_selectors,           *)
(* clean_price and human_delay.  clean_price is applied twice, the second  *)
(* time to its own result; ret holds the results in order.                 *)
(***************************************************************************)
ExtractCall ==
    /\ pc = "call"
    /\ entry = "extract_product_info"
    /\ ret' = ExtractProductInfo(arg)
    /\ pc' = "done"
    /\ UNCHANGED <<entry, arg, base_url, country, search_term, termIdx,
                 retries, attempt, outcomes, log, response, doc, selIdx,
                 products, all_products, batches, result, requested,
                 nRequests, nWaits,
                 nCooldowns, delay>>

FindTextCall ==
    /\ pc = "call"
    /\ entry = "find_text_by_selectors"
    /\ ret' = FindTextBySelectors(arg)
    /\ pc' = "done"
    /\ UNCHANGED <<entry, arg, base_url, country, search_term, termIdx,
                 retries, attempt, outcomes, log, response, doc, selIdx,
                 products, all_products, batches, result, requested,
                 nRequests, nWaits,
                 nCooldowns, delay>>

CleanPriceCall ==
    /\ pc = "call"
    /\ entry = "clean_price"
    /\ ret' = Append(ret, CleanPrice(IF ret = <<>> THEN arg ELSE ret[Len(ret)]))
    /\ pc' = IF Len(ret) = 1 THEN "done" ELSE "call"
    /\ UNCHANGED <<entry, arg, base_url, country, search_term, termIdx,
                 retries, attempt, outcomes, log, response, doc, selIdx,
                 products, all_products, batches, result, requested,
                 nRequests, nWaits,
                 nCooldowns, delay>>

\* human_delay drawing from zero up to max_delay
HumanDelayFromZero ==
    /\ pc = "call"
    /\ entry = "human_delay"
    /\ \E d \in 0..arg[2] : delay' = d
    /\ result' = Returned(None)
    /\ pc' = "done"
    /\ UNCHANGED <<entry, arg, ret, base_url, country, search_term, termIdx,
                 retries, attempt, outcomes, log, response, doc, selIdx,
                 products, all_products, batches, requested, nRequests,
                 nWaits, nCooldowns>>

\* human_delay(min_delay, max_delay): random.uniform draws the delay between
\* the bounds, time.sleep suspends the caller for it, and the function ends
\* without a return statement
HumanDelayCall ==
    /\ pc = "call"
    /\ entry = "human_delay"
    /\ \E d \in arg[1]..arg[2] : delay' = d
    /\ result' = Returned(None)
    /\ pc' = "done"
    /\ UNCHANGED <<entry, arg, ret, base_url, country, search_term, termIdx,
                 retries, attempt, outcomes, log, response, doc, selIdx,
                 products, all_products, batches, requested, nRequests,
                 nWaits, nCooldowns>>

Next ==
    \/ RequestWait
    \/ RequestExhausted
    \/ Get200
    \/ Get429
    \/ GetOtherStatus
    \/ GetRequestException
    \/ GetException
    \/ RequestReturn
    \/ SearchStart
    \/ SearchNoResponse
    \/ SearchParse
    \/ ParseSelector
    \/ ParseReturn
    \/ SearchReturn
    \/ FallbackNext
    \/ FallbackReturn
    \/ FallbackSuccess
    \/ FallbackEmpty
    \/ ApiUnsupportedCountry
    \/ ApiSearch
    \/ ApiReturn
    \/ ExtractCall
    \/ FindTextCall
    \/ CleanPriceCall
    \/ HumanDelayCall

Spec == Init /\ [][Next]_vars

(***************************************************************************)
(* Properties.                                                             *)
(***************************************************************************)
Min(S) == CHOOSE x \in S : \A y \in S : x <= y
Range(f) == { f[i] : i \in DOMAIN f }

\* the accepted products of the containers selector i matches in the document
AcceptedBy(i) == AcceptedProducts(FirstContainers(Select(doc, i)))

\* C1: scrape_with_fallback returns exactly the batch of the first search
\* term whose batch is not empty, and no term after that one is searched:
\* a non-empty batch is the last one, the run has ended with it as the
\* result, and only the terms up to it were requested; when every batch is
\* empty the result is empty and every term was tried.
C1_FirstSuccessWins ==
    entry = "scrape_with_fallback" =>
        /\ \A i \in 1..Len(batches) :
              batches[i] # <<>> =>
                  /\ i = Len(batches)
                  /\ termIdx = i
                  /\ pc = "done"
                  /\ result = Returned(batches[i])
        /\ requested \subseteq
              { SearchUrl(base_url, SearchTerms[j]) : j \in 1..termIdx }
        /\ Len(batches) <= termIdx
        /\ (pc = "done" /\ result.kind = "return"
               /\ \A i \in 1..Len(batches) : batches[i] = <<>>)
              => (result.value = <<>> /\ Len(batches) = Len(SearchTerms))

\* C1 witness: the first term gave nothing, the second three records, which
\* are the result; the third term was never requested
C1_Witness ==
    /\ entry = "scrape_with_fallback"
    /\ pc = "done"
    /\ Len(batches) = 2
    /\ batches[1] = <<>>
    /\ Len(batches[2]) = 3
    /\ result = Returned(batches[2])
    /\ SearchUrl(base_url, SearchTerms[3]) \notin requested

\* C2 as stated: when parse_product_data returns, a selector that matched
\* containers none of which was accepted is the last one evaluated, and the
\* batch is empty.
C2_FixedPointAsStated ==
    pc = "parse_return" =>
        \A i \in 1..selIdx :
            (Select(doc, i) # <<>> /\ AcceptedBy(i) = <<>>)
                => (selIdx = i /\ products = <<>>)

\* C2 amended: a selector whose containers are all rejected is passed over:
\* the batch is the accepted products of the first selector that has any,
\* no selector after that one is evaluated, and the batch is empty only when
\* every selector was evaluated and none has an accepted product.
C2_FallsThroughToNextSelector ==
    pc = "parse_return" =>
        LET good == { i \in 1..NumSelectors : AcceptedBy(i) # <<>> }
        IN  IF good = {}
            THEN products = <<>> /\ selIdx = NumSelectors
            ELSE products = AcceptedBy(Min(good)) /\ selIdx = Min(good)

\* C2 witness: the first selector matched containers, all rejected, and the
\* batch comes from a later selector
C2_Witness ==
    /\ pc = "parse_return"
    /\ Select(doc, 1) # <<>>
    /\ AcceptedBy(1) = <<>>
    /\ selIdx > 1
    /\ products # <<>>

\* C3: when make_request returns (no exception other than a
\* RequestException having occurred), either some attempt k got a 200, it is
\* the first and the last request, k <= retries, and the response of attempt
\* k is returned; or no attempt got a 200, exactly retries requests were
\* made and None is returned.
C3_FirstSuccessOrExhausted ==
    (pc = "request_return"
        \/ (pc = "done" /\ entry = "make_request" /\ result.kind = "return")) =>
        LET ok == { k \in 1..Len(outcomes) : outcomes[k] = "200" }
        IN  /\ NumGets(log) = Len(outcomes)
            /\ IF ok # {}
               THEN /\ Min(ok) = Len(outcomes)
                    /\ Min(ok) <= retries
                    /\ response # None
                    /\ response[1].status_code = 200
                    /\ response[1].attempt = Min(ok)
               ELSE /\ Len(outcomes) = retries
                    /\ response = None
            /\ pc = "done" => result.value = response

\* C3 witness: 429, 500, 200 with three attempts allowed returns the third
\* response
C3_Witness ==
    /\ entry = "make_request"
    /\ pc = "done"
    /\ retries = 3
    /\ outcomes = <<"429", "500", "200">>
    /\ result.value # None
    /\ result.value[1].attempt = 3

\* C4: a request whose country is not in country_domains makes no request
\* and no wait, and ends by raising.
C4_NoFetchForUnsupportedCountry ==
    (entry = "search_products" /\ country \notin DOMAIN CountryDomains) =>
        /\ nRequests = 0
        /\ nWaits = 0
        /\ requested = {}
        /\ log = <<>>
        /\ pc \in {"api", "done"}
        /\ pc = "done" => result.kind = "raise"

\* C4 witness: the request for country ZZ has ended
C4_Witness ==
    /\ entry = "search_products"
    /\ country = "ZZ"
    /\ pc = "done"
    /\ result.kind = "raise"

\* C5 as stated: the error search_products raises for a country that is not
\* in country_domains is the 400 input error.
C5_UnsupportedCountryIs400 ==
    (entry = "search_products" /\ pc = "done"
        /\ country \notin DOMAIN CountryDomains) =>
        /\ result.kind = "raise"
        /\ result.exc = "HTTPException"
        /\ result.status_code = 400

\* C6 as stated: once a selector has matched an element, the text returned
\* is that element's or nothing: no later selector supplies it.
C6_FirstMatchAsStated ==
    (entry = "find_text_by_selectors" /\ pc = "done") =>
        LET matched == { i \in 1..Len(arg) : arg[i] # None }
        IN  matched # {} =>
                ret \in {None, Some(GetTextStrip(arg[Min(matched)][1].texts))}

\* C6 amended: find_text_by_selectors returns the stripped text of the first
\* selector whose element has non-empty stripped text; a selector whose
\* element has no text is passed over like one that matches nothing, and
\* None is returned when no selector yields text.
C6_FirstNonEmptyText ==
    (entry = "find_text_by_selectors" /\ pc = "done") =>
        LET good == { i \in 1..Len(arg) :
                        arg[i] # None /\ GetTextStrip(arg[i][1].texts) # <<>> }
        IN  IF good = {}
            THEN ret = None
            ELSE ret = Some(GetTextStrip(arg[Min(good)][1].texts))

\* C6 witness: the first selector matches an element without text, the
\* second and third match elements with different texts; the second's is
\* returned
C6_Witness ==
    /\ entry = "find_text_by_selectors"
    /\ pc = "done"
    /\ Len(arg) = 3
    /\ arg[1] # None /\ arg[2] # None /\ arg[3] # None
    /\ GetTextStrip(arg[1][1].texts) = <<>>
    /\ GetTextStrip(arg[2][1].texts) # <<>>
    /\ GetTextStrip(arg[3][1].texts) # <<>>
    /\ GetTextStrip(arg[3][1].texts) # GetTextStrip(arg[2][1].texts)
    /\ ret = Some(GetTextStrip(arg[2][1].texts))

\* an element with a character that is not whitespace in one of its text nodes
HasVisibleText(el) ==
    \E i \in 1..Len(el.texts) :
        \E j \in 1..Len(el.texts[i]) : el.texts[i][j] \notin Whitespace

\* C7: extract_product_info returns a record exactly when some name selector
\* matches an element with text that is not blank, whatever the price, link
\* and image matches are; the record's name is then not blank.
C7_AcceptedIffNamed ==
    (entry = "extract_product_info" /\ pc = "done") =>
        /\ ret # None <=>
              \E i \in 1..Len(arg.name) :
                  arg.name[i] # None /\ HasVisibleText(arg.name[i][1])
        /\ ret # None => Strip(ret[1].productName) # <<>>

\* C7 witness: a whitespace-only name with price, link and image all found
\* is rejected
C7_Witness ==
    /\ entry = "extract_product_info"
    /\ pc = "done"
    /\ arg.name = <<Some(Text(<<" ">>))>>
    /\ ProductPrice(arg) # PriceNotAvailable
    /\ ProductLink(arg) # <<>>
    /\ ProductImage(arg) # <<>>
    /\ ret = None

\* C8 as stated: clean_price applied to its own result returns that result.
C8_CleanPriceIdempotent ==
    (entry = "clean_price" /\ Len(ret) = 2) => ret[2] = ret[1]

\* the link the claim gives a container under the scraper's base_url: the
\* href when it is absolute, base_url followed by the href when it is
\* relative, empty when there is none
LinkAsClaimed(container) ==
    LET el == FindElementBySelectors(container.link)
    IN  IF el # None /\ el[1].href \notin {None, Some(<<>>)}
        THEN IF StartsWith(el[1].href[1], Http)
             THEN el[1].href[1]
             ELSE base_url \o el[1].href[1]
        ELSE <<>>

\* C9 as stated: every record parse_product_data returns has the link its
\* container's href gives under the scraper's base_url (the origin
\* search_products set, or the constructor's).
C9_LinkUsesBaseUrl ==
    pc = "parse_return" =>
        \A i \in 1..Len(products) :
            \E j \in 1..Len(doc) :
                /\ ExtractProductInfo(doc[j].content) # None
                /\ products[i].productName
                      = ExtractProductInfo(doc[j].content)[1].productName
                /\ products[i].link = LinkAsClaimed(doc[j].content)

\* C10: failed fetches end in normal results: scrape_amazon_search returns
\* an empty batch when make_request returned None, a search in which
\* session.get raised nothing but RequestExceptions ends by returning, and
\* scrape_with_fallback whose batches are all empty has tried every term and
\* returns the empty list.
C10_FetchFailuresYieldEmptyBatch ==
    /\ (pc = "search_return" /\ response = None) => products = <<>>
    /\ (pc = "done" /\ entry \in {"scrape_amazon_search", "scrape_with_fallback"}
           /\ "Exception" \notin Range(outcomes))
          => result.kind = "return"
    /\ (pc = "done" /\ entry = "scrape_amazon_search" /\ response = None
           /\ "Exception" \notin Range(outcomes))
          => result = Returned(<<>>)
    /\ (pc = "done" /\ entry = "scrape_with_fallback" /\ result.kind = "return"
           /\ \A i \in 1..Len(batches) : batches[i] = <<>>)
          => (result = Returned(<<>>) /\ Len(batches) = Len(SearchTerms))

\* C10 witness: every request of every term failed, the last with a
\* RequestException, and the fallback search returned the empty list
C10_Witness ==
    /\ entry = "scrape_with_fallback"
    /\ pc = "done"
    /\ nRequests = Len(SearchTerms) * DefaultRetries
    /\ response = None
    /\ outcomes = <<"500", "429", "RequestException">>
    /\ Len(batches) = Len(SearchTerms)
    /\ result = Returned(<<>>)

\* A variant of the run: the work left in the worst case, counted in steps.
\* The position in the code is ranked from the return backwards; an attempt
\* of make_request left counts two steps (the wait and the request), a
\* selector of parse_product_data left counts one, and a search term of
\* scrape_with_fallback left counts a whole search.
SearchRank == 12 + 2 * DefaultRetries
PcRank ==
    CASE pc = "done" -> 0
      [] pc = "call" -> IF entry = "clean_price" THEN 2 - Len(ret) ELSE 1
      [] pc = "fallback_loop" -> 1
      [] pc = "search_return" -> 2
      [] pc = "parse_return" -> 3
      [] pc = "parse_loop" -> 4 + (NumSelectors - selIdx)
      [] pc = "request_return" -> 10
      [] pc = "request_get" -> 10 + 2 * (retries - attempt)
      [] pc = "request_loop" -> 11 + 2 * (retries - attempt)
      [] pc = "search" -> SearchRank
      [] pc = "api" -> SearchRank + 1
Variant ==
    PcRank + (IF entry = "scrape_with_fallback"
              THEN SearchRank * (Len(SearchTerms) - termIdx) ELSE 0)

\* a statement is left to execute: the guards of the actions, by position
Running ==
    CASE pc = "request_loop" -> attempt < retries \/ attempt >= retries
      [] pc = "request_get" -> Outcomes # {}
      [] pc = "request_return" -> entry = "make_request" \/ response = None \/ response # None
      [] pc = "search" -> TRUE
      [] pc = "parse_loop" -> selIdx < NumSelectors
      [] pc = "parse_return" -> TRUE
      [] pc = "search_return" ->
            entry \in {"scrape_amazon_search", "scrape_with_fallback", "search_products"}
      [] pc = "fallback_loop" -> termIdx <= Len(SearchTerms)
      [] pc = "api" -> TRUE
      [] pc = "call" ->
            entry \in {"extract_product_info", "find_text_by_selectors",
                       "clean_price", "human_delay"}
      [] OTHER -> FALSE

\* C11: every call ends: the variant is a natural number that every step
\* lowers, and a statement is left to execute until the call has returned or
\* raised (pc = "done"); scrape_with_fallback makes at most
\* |search_terms| x retries = 18 requests, and a make_request call makes at
\* most retries requests, one per attempt.
C11_Terminates ==
    /\ [](/\ Variant >= 0
          /\ pc = "done" \/ Running
          /\ entry = "scrape_with_fallback" =>
                nRequests <= Len(SearchTerms) * DefaultRetries
          /\ NumGets(log) <= retries
          /\ attempt <= retries
          /\ pc = "request_loop" => NumGets(log) = attempt)
    /\ [][Variant' < Variant]_vars

\* C11 witness: a fallback search that ended after 18 requests
C11_Witness ==
    /\ entry = "scrape_with_fallback"
    /\ pc = "done"
    /\ nRequests = 18
    /\ result.kind = "return"

\* C12: the selectors are alternatives: while parse_product_data runs, every
\* selector evaluated before the last one contributed nothing, the loop goes
\* on only while products is empty, and the batch it ends with is what the
\* last evaluated selector alone contributed.
C12_OneSelectorPerBatch ==
    pc \in {"parse_loop", "parse_return"} =>
        /\ \A i \in 1..(selIdx - 1) : AcceptedBy(i) = <<>>
        /\ pc = "parse_loop" => products = <<>>
        /\ products # <<>> => products = AcceptedBy(selIdx)

\* C12 witness: the batch is what one selector contributed although a later
\* selector, never evaluated, matches a container with another record
C12_Witness ==
    /\ pc = "parse_return"
    /\ products # <<>>
    /\ \E j \in (selIdx + 1)..NumSelectors :
          /\ AcceptedBy(j) # <<>>
          /\ Range(AcceptedBy(j)) \cap Range(products) = {}

\* extraction of the container gives a record: it does not raise and the
\* name is found
Accepts(container) ==
    ~ExtractRaises(container) /\ ExtractProductInfo(container) # None

\* the containers the last evaluated selector matched, and the positions
\* among the first MaxContainers of them whose container gives a record
Matched == IF selIdx = 0 THEN <<>> ELSE Select(doc, selIdx)
Examined ==
    1..(IF Len(Matched) < MaxContainers THEN Len(Matched) ELSE MaxContainers)
AcceptedAt == { k \in Examined : Accepts(Matched[k]) }

\* C13: the batch is the records of the accepted containers among the first
\* MaxContainers = 20 the selector matched, each once per container
\* and in document order: the k-th accepted position gives the k-th record.
\* A container after the twentieth gives nothing, and the batch has at most
\* 20 records.
C13_FirstTwentyInOrder ==
    pc = "parse_return" =>
        /\ Len(products) = Cardinality(AcceptedAt)
        /\ \A k \in AcceptedAt :
              products[Cardinality({ j \in AcceptedAt : j <= k })]
                  = ExtractProductInfo(Matched[k])[1]
        /\ Len(products) <= MaxContainers

\* C13 witness: the selector matched more than 20 containers, one after the
\* twentieth would give a record that is not in the batch, and the batch
\* holds the same record twice
C13_Witness ==
    /\ pc = "parse_return"
    /\ Len(Matched) > MaxContainers
    /\ \E k \in (MaxContainers + 1)..Len(Matched) :
          /\ Accepts(Matched[k])
          /\ ExtractProductInfo(Matched[k])[1] \notin Range(products)
    /\ \E i, j \in 1..Len(products) : i < j /\ products[i] = products[j]

\* C14: a container that is rejected or whose extraction raises costs the
\* batch that container only: every examined container that gives a record
\* has its record in the batch, those after a rejected or raising one
\* included, and parse_product_data returns, it does not raise.
C14_FailureSkipsOneContainer ==
    /\ pc = "parse_return" =>
          \A k \in Examined :
              Accepts(Matched[k]) =>
                  ExtractProductInfo(Matched[k])[1] \in Range(products)
    /\ (pc = "done" /\ entry = "parse_product_data") =>
          result = Returned(products)

\* C14 witness: among the examined containers one is rejected, a later one
\* raises, and one after both gives a record of the batch that no container
\* before the failures gives
C14_Witness ==
    /\ pc = "parse_return"
    /\ \E i, j, k \in Examined :
          /\ i < j /\ j < k
          /\ ~ExtractRaises(Matched[i]) /\ ExtractProductInfo(Matched[i]) = None
          /\ ExtractRaises(Matched[j])
          /\ Accepts(Matched[k])
          /\ ExtractProductInfo(Matched[k])[1] \in Range(products)
          /\ \A h \in 1..(j - 1) :
                Accepts(Matched[h]) =>
                    ExtractProductInfo(Matched[h]) # ExtractProductInfo(Matched[k])

\* the position in the log of the k-th request of the running make_request
GetAt(k) ==
    CHOOSE i \in 1..Len(log) :
        log[i].ev = "get" /\ NumGets(SubSeq(log, 1, i)) = k

\* the requests before the k-th whose handling ended with a wait of its own
WaitedAfter(k) ==
    { j \in 1..(k - 1) : outcomes[j] \in {"429", "RequestException"} }

\* C15: every request of make_request comes right after the wait of its own
\* attempt: Wait(2 s, 5 s) before the first request, Wait(5 s, 10 s) before
\* each later one, and that wait is one more than the waits that ended the
\* earlier attempts (the k-th request is entry 2k of the log, plus one for
\* each earlier attempt that ended with a wait).
C15_WaitBeforeEveryRequest ==
    /\ NumGets(log) = Len(outcomes)
    /\ \A k \in 1..NumGets(log) :
          /\ GetAt(k) > 1
          /\ log[GetAt(k) - 1] = IF k = 1 THEN Wait(20, 50) ELSE Wait(50, 100)
          /\ GetAt(k) = 2 * k + Cardinality(WaitedAfter(k))
    /\ pc = "request_get" =>
          /\ log # <<>>
          /\ log[Len(log)] = IF attempt = 0 THEN Wait(20, 50) ELSE Wait(50, 100)

\* C15 witness: three requests, the second after a RequestException and its
\* backoff, the third after a 500
C15_Witness ==
    /\ entry = "make_request"
    /\ pc = "done"
    /\ outcomes = <<"RequestException", "500", "200">>
    /\ log = <<Wait(20, 50), Get, Wait(50, 100), Wait(50, 100), Get,
               Wait(50, 100), Get>>

\* C16: a 429 is followed at once by Wait(10 s, 20 s), a 500 by no wait but
\* the one that opens the next attempt; either uses up its attempt, so
\* make_request ends on such an answer only when it was that of the last
\* attempt, with None: retries answers of 429 are retries requests and None.
C16_RateLimitCooldown ==
    /\ \A k \in 1..Len(outcomes) :
          /\ outcomes[k] = "429" =>
                /\ GetAt(k) < Len(log)
                /\ log[GetAt(k) + 1] = Wait(100, 200)
          /\ outcomes[k] = "500" =>
                \/ GetAt(k) = Len(log)
                \/ /\ log[GetAt(k) + 1] = Wait(50, 100)
                   /\ GetAt(k) + 1 = Len(log) \/ log[GetAt(k) + 2] = Get
          /\ outcomes[k] \in {"429", "500"} => k <= attempt
    /\ pc = "request_loop" => attempt = Len(outcomes)
    /\ (pc = "request_return" /\ outcomes # <<>>
           /\ outcomes[Len(outcomes)] \in {"429", "500"}) =>
          /\ Len(outcomes) = retries
          /\ response = None

\* C16 witness: three attempts, three 429 answers, each followed by the
\* cooldown, and None returned
C16_Witness ==
    /\ entry = "make_request"
    /\ pc = "done"
    /\ retries = 3
    /\ outcomes = <<"429", "429", "429">>
    /\ log = <<Wait(20, 50), Get, Wait(100, 200), Wait(50, 100), Get,
               Wait(100, 200), Wait(50, 100), Get, Wait(100, 200)>>
    /\ result = Returned(None)

\* C17: a RequestException never leaves make_request.  On an attempt that is
\* not the last it is followed at once by Wait(5 s, 10 s) and then by the
\* next attempt; on the last attempt nothing follows it and None is
\* returned.
C17_TransportErrorBackoff ==
    /\ \A k \in 1..Len(outcomes) :
          outcomes[k] = "RequestException" =>
              IF k < retries
              THEN /\ GetAt(k) < Len(log)
                   /\ log[GetAt(k) + 1] = Wait(50, 100)
                   /\ GetAt(k) + 1 < Len(log) =>
                         log[GetAt(k) + 2] = Wait(50, 100)
                   /\ GetAt(k) + 2 < Len(log) => log[GetAt(k) + 3] = Get
                   /\ pc = "request_return" => Len(outcomes) > k
              ELSE /\ k = retries
                   /\ GetAt(k) = Len(log)
                   /\ pc = "request_return" => response = None
    /\ (entry = "make_request" /\ pc = "done"
           /\ "Exception" \notin Range(outcomes)) =>
          result = Returned(response)

\* C17 witness: three attempts, three RequestExceptions, a backoff after the
\* first two only, and None returned
C17_Witness ==
    /\ entry = "make_request"
    /\ pc = "done"
    /\ retries = 3
    /\ outcomes = <<"RequestException", "RequestException", "RequestException">>
    /\ log = <<Wait(20, 50), Get, Wait(50, 100), Wait(50, 100), Get,
               Wait(50, 100), Wait(50, 100), Get>>
    /\ result = Returned(None)

\* the positions of the run inside scrape_amazon_search
InSearch ==
    pc \in {"search", "request_loop", "request_get", "request_return",
            "parse_loop", "parse_return", "search_return"}

\* C18: in scrape_with_fallback every empty batch is followed by one
\* human_delay(3.0, 7.0) before the next term is searched: while term
\* number termIdx is searched, the termIdx - 1 batches before it are empty
\* and as many cooldowns were made; and when the batch of the last term is
\* empty the result is the empty list.
C18_CooldownBetweenTerms ==
    entry = "scrape_with_fallback" =>
        /\ InSearch =>
              /\ Len(batches) = termIdx - 1
              /\ \A i \in 1..Len(batches) : batches[i] = <<>>
              /\ nCooldowns = termIdx - 1
        /\ nCooldowns = Cardinality({ i \in 1..Len(batches) : batches[i] = <<>> })
        /\ (pc = "done" /\ result.kind = "return"
               /\ Len(batches) = Len(SearchTerms)
               /\ batches[Len(batches)] = <<>>)
              => result.value = <<>>

\* C18 witness: the first request of the third term is about to be sent
\* after two empty batches and two cooldowns
C18_Witness ==
    /\ entry = "scrape_with_fallback"
    /\ pc = "request_get"
    /\ termIdx = 3
    /\ attempt = 0
    /\ batches = <<<<>>, <<>>>>
    /\ nCooldowns = 2

\* C19 as stated: human_delay(min, max) suspends the caller for a delay
\* between min and max, not zero when the bounds are positive, and returns
\* that delay.
C19_ReturnsElapsedAsStated ==
    (entry = "human_delay" /\ pc = "done") =>
        /\ arg[1] <= delay /\ delay <= arg[2]
        /\ (arg[1] > 0 /\ arg[2] > 0) => delay > 0
        /\ result = Returned(Some(delay))

\* C19 amended: human_delay(min, max) suspends the caller for a delay
\* between min and max, not zero when the bounds are positive, and returns
\* nothing (None).
C19_DelayWithinBounds ==
    (entry = "human_delay" /\ pc = "done") =>
        /\ arg[1] <= delay /\ delay <= arg[2]
        /\ (arg[1] > 0 /\ arg[2] > 0) => delay > 0
        /\ result = Returned(None)

\* C19 witness: human_delay(0.1, 0.5) has drawn its smallest delay
C19_Witness ==
    /\ entry = "human_delay"
    /\ pc = "done"
    /\ arg = <<1, 5>>
    /\ delay = 1

\* C20: the run is one sequence of steps.  Every request sent has its
\* outcome before anything else happens, so none is pending when the next
\* is sent; a request is sent only from the wait that opens its attempt,
\* after the attempts before it have ended (attempt of them, each with its
\* outcome); and scrape_with_fallback is inside the search of a term only
\* when the searches of the terms before it have returned their batches.
C20_StrictlySequential ==
    /\ Len(outcomes) = NumGets(log)
    /\ \A i \in 1..Len(log) :
          log[i].ev = "get" => (i > 1 /\ log[i - 1].ev = "wait")
    /\ pc = "request_get" =>
          /\ attempt = Len(outcomes)
          /\ attempt < retries
          /\ log # <<>> /\ log[Len(log)].ev = "wait"
    /\ pc \in {"parse_loop", "parse_return"} /\ entry # "parse_product_data" =>
          /\ outcomes # <<>>
          /\ outcomes[Len(outcomes)] = "200"
          /\ response # None
    /\ (entry = "scrape_with_fallback" /\ InSearch) =>
          /\ Len(batches) = termIdx - 1
          /\ nRequests <= (termIdx - 1) * DefaultRetries + Len(outcomes)
    /\ entry = "scrape_with_fallback" =>
          Cardinality(requested) <= termIdx

\* C20 witness: the second term's third request is about to be sent, after
\* the first term's search has returned and the two requests before it have
\* their outcomes
C20_Witness ==
    /\ entry = "scrape_with_fallback"
    /\ pc = "request_get"
    /\ termIdx = 2
    /\ attempt = 2
    /\ Len(outcomes) = 2
    /\ Len(batches) = 1
    /\ nRequests = 5

\* the waits of the log
NumWaits(l) == Cardinality({ i \in 1..Len(l) : l[i].ev = "wait" })

\* C21: a 429 is followed by Wait(10 s, 20 s) on every attempt, the last
\* included: after the last attempt's 429 the cooldown is the last thing
\* make_request does before it returns None, whereas nothing follows a
\* RequestException of the last attempt; after a 429 of an earlier attempt
\* the cooldown and the Wait(5 s, 10 s) of the next attempt come one after
\* the other before the next request.
C21_CooldownOnLastAttemptToo ==
    /\ \A k \in 1..Len(outcomes) :
          /\ outcomes[k] = "429" =>
                /\ Len(log) >= GetAt(k) + 1
                /\ log[GetAt(k) + 1] = Wait(100, 200)
                /\ IF k = retries
                   THEN /\ Len(log) = GetAt(k) + 1
                        /\ pc = "request_return" => response = None
                   ELSE /\ Len(log) >= GetAt(k) + 2 =>
                              log[GetAt(k) + 2] = Wait(50, 100)
                        /\ Len(log) >= GetAt(k) + 3 => log[GetAt(k) + 3] = Get
          /\ (outcomes[k] = "RequestException" /\ k = retries) =>
                log[Len(log)] = Get
    /\ pc = "request_return" =>
          NumWaits(log) =
              Len(outcomes)
              + Cardinality({ k \in 1..Len(outcomes) : outcomes[k] = "429" })
              + Cardinality({ k \in 1..Len(outcomes) :
                                outcomes[k] = "RequestException" /\ k < retries })

\* C21 witness: two attempts allowed and a 429 on both: the first is
\* followed by the cooldown and the retry delay, the second by the cooldown,
\* and None is returned
C21_Witness ==
    /\ entry = "make_request"
    /\ pc = "done"
    /\ retries = 2
    /\ outcomes = <<"429", "429">>
    /\ log = <<Wait(20, 50), Get, Wait(100, 200), Wait(50, 100), Get,
               Wait(100, 200)>>
    /\ result = Returned(None)

\* C22: scrape_with_fallback makes one human_delay(3.0, 7.0) after every
\* empty batch, that of the last term included: back at the head of the
\* loop as many cooldowns were made as terms were searched; a search that
\* returns the empty list after all terms made |search_terms| = 6 cooldowns,
\* and a search that returns a batch made one per term before the
\* successful one.
C22_OneCooldownPerEmptyBatch ==
    entry = "scrape_with_fallback" =>
        /\ pc = "fallback_loop" =>
              /\ nCooldowns = termIdx
              /\ Len(batches) = termIdx
        /\ (pc = "done" /\ result.kind = "return") =>
              IF result.value = <<>>
              THEN /\ nCooldowns = Len(SearchTerms)
                   /\ termIdx = Len(SearchTerms)
                   /\ \A i \in 1..Len(batches) : batches[i] = <<>>
              ELSE /\ nCooldowns = termIdx - 1
                   /\ batches[termIdx] = result.value
        /\ nCooldowns <= Len(SearchTerms)

\* C22 witness: every term gave an empty batch, the last after a 200 whose
\* page had no acceptable container, and six cooldowns were made
C22_Witness ==
    /\ entry = "scrape_with_fallback"
    /\ pc = "done"
    /\ result = Returned(<<>>)
    /\ Len(batches) = Len(SearchTerms)
    /\ nCooldowns = 6
    /\ response # None

====
